---- MODULE Spec2Model ----
(***************************************************************************)
(* Model of the Dynamic Forms API (src/src/app/main.py): the FastAPI       *)
(* handlers over the table processes_with_json, the pydantic request       *)
(* models, the JSON conversions between GridItem lists and the jsonb       *)
(* column, and the per-request connection dependency over the shared pool. *)
(*                                                                         *)
(* Text is modelled at character level: a Python str / SQL text value is a *)
(* sequence of one-character strings, so that ILIKE, json.dumps,           *)
(* json.loads and the iteration of a str are computed, not assumed.        *)
(***************************************************************************)
EXTENDS Integers, Sequences, FiniteSets, TLC

(***************************************************************************)
(* Characters                                                              *)
(***************************************************************************)

\* The characters that occur, in ASCII order (byte order of PostgreSQL's
\* comparison of jsonb keys).
AsciiOrder ==
    << " ", "\"", "%", ",", ":", "A", "B", "R", "Z", "[", "]", "_",
       "a", "d", "e", "f", "g", "h", "i", "k", "l", "m", "n", "o", "r", "s",
       "t", "u", "w", "x", "z", "{", "}" >>

Ord(c) == CHOOSE i \in 1..Len(AsciiOrder) : AsciiOrder[i] = c

\* lower() of one character, as ILIKE folds case.
Lower(c) ==
    CASE c = "A" -> "a"
      [] c = "B" -> "b"
      [] c = "R" -> "r"
      [] c = "Z" -> "z"
      [] OTHER -> c

\* Character sequences of the literals the code and the formats use.
K_name      == << "n", "a", "m", "e" >>
K_showRight == << "s", "h", "o", "w", "R", "i", "g", "h", "t" >>
K_showBelow == << "s", "h", "o", "w", "B", "e", "l", "o", "w" >>
K_gridname  == << "g", "r", "i", "d", "n", "a", "m", "e" >>
S_unknown   == << "u", "n", "k", "n", "o", "w", "n" >>
S_true      == << "t", "r", "u", "e" >>
S_false     == << "f", "a", "l", "s", "e" >>
S_null      == << "n", "u", "l", "l" >>

(***************************************************************************)
(* Python / JSON values.  Every value is a record of one shape; t is its   *)
(* type: "str", "bool", "null" (None, SQL NULL), "list", "dict", and       *)
(* "absent" for a key that a request body does not carry.  A dict keeps    *)
(* its items in e as key, value, key, value, ... in insertion order.       *)
(***************************************************************************)
JStr(s)  == [t |-> "str",    s |-> s,    b |-> FALSE, n |-> 0, e |-> << >>]
JBool(b) == [t |-> "bool",   s |-> << >>, b |-> b,     n |-> 0, e |-> << >>]
JInt(n)  == [t |-> "int",    s |-> << >>, b |-> FALSE, n |-> n, e |-> << >>]
JList(e) == [t |-> "list",   s |-> << >>, b |-> FALSE, n |-> 0, e |-> e]
JDict(e) == [t |-> "dict",   s |-> << >>, b |-> FALSE, n |-> 0, e |-> e]
None     == [t |-> "null",   s |-> << >>, b |-> FALSE, n |-> 0, e |-> << >>]
Absent   == [t |-> "absent", s |-> << >>, b |-> FALSE, n |-> 0, e |-> << >>]

\* Outcome of a computation: a value, or a raised exception of a type.
Ok(v)      == [ok |-> TRUE,  v |-> v,    exc |-> "none"]
Raise(exc) == [ok |-> FALSE, v |-> None, exc |-> exc]

\* str(n) of a non-negative int.
Digits == << "0", "1", "2", "3", "4", "5", "6", "7", "8", "9" >>
RECURSIVE PyStrInt(_)
PyStrInt(n) ==
    IF n < 10 THEN << Digits[n + 1] >>
    ELSE PyStrInt(n \div 10) \o << Digits[(n % 10) + 1] >>

DictKeys(d) == { d.e[2 * i - 1].s : i \in 1..(Len(d.e) \div 2) }
HasKey(d, k) == k \in DictKeys(d)
DictGet(d, k) ==
    LET i == CHOOSE j \in 1..(Len(d.e) \div 2) : d.e[2 * j - 1].s = k
    IN  d.e[2 * i]
\* d[k] = v of a Python dict: a key already present keeps its place.
DictSet(d, k, v) ==
    IF HasKey(d, k)
    THEN LET i == CHOOSE j \in 1..(Len(d.e) \div 2) : d.e[2 * j - 1].s = k
         IN  JDict([d.e EXCEPT ![2 * i] = v])
    ELSE JDict(d.e \o << JStr(k), v >>)

(***************************************************************************)
(* json.dumps with the default separators ", " and ": "                    *)
(***************************************************************************)
RECURSIVE json_dumps(_), DumpItems(_, _), DumpPairs(_, _)
json_dumps(v) ==
    CASE v.t = "str"  -> << "\"" >> \o v.s \o << "\"" >>
      [] v.t = "bool" -> IF v.b THEN S_true ELSE S_false
      [] v.t = "null" -> S_null
      [] v.t = "int"  -> PyStrInt(v.n)
      [] v.t = "list" -> << "[" >> \o DumpItems(v.e, 1) \o << "]" >>
      [] v.t = "dict" -> << "{" >> \o DumpPairs(v.e, 1) \o << "}" >>
DumpItems(e, i) ==
    IF i > Len(e) THEN << >>
    ELSE (IF i > 1 THEN << ",", " " >> ELSE << >>)
         \o json_dumps(e[i]) \o DumpItems(e, i + 1)
DumpPairs(e, i) ==
    IF i > Len(e) THEN << >>
    ELSE (IF i > 1 THEN << ",", " " >> ELSE << >>)
         \o json_dumps(e[i]) \o << ":", " " >> \o json_dumps(e[i + 1])
         \o DumpPairs(e, i + 2)

(***************************************************************************)
(* json.loads: a recursive-descent parser.  A parse yields                 *)
(* [ok, v, pos]: whether it succeeded, the value, the next position.       *)
(***************************************************************************)
ParseFail == [ok |-> FALSE, v |-> None, pos |-> 0]
Parsed(v, pos) == [ok |-> TRUE, v |-> v, pos |-> pos]

RECURSIVE SkipWs(_, _)
SkipWs(txt, i) ==
    IF i <= Len(txt) /\ txt[i] = " " THEN SkipWs(txt, i + 1) ELSE i

\* txt carries the characters of lit from position i on.
LitAt(txt, i, lit) ==
    /\ i + Len(lit) - 1 <= Len(txt)
    /\ \A k \in 1..Len(lit) : txt[i + k - 1] = lit[k]

RECURSIVE ParseValue(_, _), ParseString(_, _, _), ParseItems(_, _, _), ParsePairs(_, _, _)
ParseString(txt, i, acc) ==
    IF i > Len(txt) THEN ParseFail
    ELSE IF txt[i] = "\"" THEN Parsed(JStr(acc), i + 1)
    ELSE ParseString(txt, i + 1, Append(acc, txt[i]))
ParseItems(txt, i, acc) ==
    LET Close(r, j) ==
            IF ~r.ok \/ j > Len(txt) THEN ParseFail
            ELSE IF txt[j] = "," THEN ParseItems(txt, j + 1, Append(acc, r.v))
            ELSE IF txt[j] = "]" THEN Parsed(JList(Append(acc, r.v)), j + 1)
            ELSE ParseFail
        Item(r) == Close(r, SkipWs(txt, r.pos))
    IN  Item(ParseValue(txt, i))
ParsePairs(txt, i, acc) ==
    LET Close(k, r, j) ==
            IF ~r.ok \/ j > Len(txt) THEN ParseFail
            ELSE IF txt[j] = "," THEN ParsePairs(txt, j + 1, DictSet(acc, k.v.s, r.v))
            ELSE IF txt[j] = "}" THEN Parsed(DictSet(acc, k.v.s, r.v), j + 1)
            ELSE ParseFail
        Member(k, r) == Close(k, r, SkipWs(txt, r.pos))
        Colon(k, i2) ==
            Member(k, IF k.ok /\ i2 <= Len(txt) /\ txt[i2] = ":"
                      THEN ParseValue(txt, i2 + 1) ELSE ParseFail)
        Key(k) == Colon(k, SkipWs(txt, k.pos))
        Quote(i1) ==
            Key(IF i1 <= Len(txt) /\ txt[i1] = "\""
                THEN ParseString(txt, i1 + 1, << >>) ELSE ParseFail)
    IN  Quote(SkipWs(txt, i))
ParseValue(txt, i0) ==
    LET Opens(j, close) == j <= Len(txt) /\ txt[j] = close
        At(i) ==
            IF i > Len(txt) THEN ParseFail
            ELSE CASE txt[i] = "\"" -> ParseString(txt, i + 1, << >>)
                   [] txt[i] = "[" ->
                        IF Opens(SkipWs(txt, i + 1), "]")
                        THEN Parsed(JList(<< >>), SkipWs(txt, i + 1) + 1)
                        ELSE ParseItems(txt, i + 1, << >>)
                   [] txt[i] = "{" ->
                        IF Opens(SkipWs(txt, i + 1), "}")
                        THEN Parsed(JDict(<< >>), SkipWs(txt, i + 1) + 1)
                        ELSE ParsePairs(txt, i + 1, JDict(<< >>))
                   [] txt[i] = "t" ->
                        IF LitAt(txt, i, S_true)
                        THEN Parsed(JBool(TRUE), i + Len(S_true)) ELSE ParseFail
                   [] txt[i] = "f" ->
                        IF LitAt(txt, i, S_false)
                        THEN Parsed(JBool(FALSE), i + Len(S_false)) ELSE ParseFail
                   [] txt[i] = "n" ->
                        IF LitAt(txt, i, S_null)
                        THEN Parsed(None, i + Len(S_null)) ELSE ParseFail
                   [] OTHER -> ParseFail
    IN  At(SkipWs(txt, i0))

\* json.loads(txt): the value, or JSONDecodeError (a ValueError).
json_loads(txt) ==
    LET Whole(r) == IF r.ok /\ SkipWs(txt, r.pos) > Len(txt)
                    THEN Ok(r.v)
                    ELSE Raise("JSONDecodeError")
    IN  Whole(ParseValue(txt, 1))

(***************************************************************************)
(* PostgreSQL side: the jsonb column, its text form, ILIKE                 *)
(***************************************************************************)

\* Order of jsonb object keys: shorter first, then bytewise.
RECURSIVE LexLess(_, _, _)
LexLess(a, b, i) ==
    IF i > Len(a) THEN FALSE
    ELSE IF a[i] # b[i] THEN Ord(a[i]) < Ord(b[i])
    ELSE LexLess(a, b, i + 1)
KeyLess(a, b) == Len(a) < Len(b) \/ (Len(a) = Len(b) /\ LexLess(a, b, 1))

\* The pairs of e (key, value, key, value, ...) from pair i on, in key order.
RECURSIVE SortPairs(_, _)
SortPairs(e, done) ==
    LET Least(left) ==
            CHOOSE i \in left :
                \A j \in left \ {i} : KeyLess(e[2 * i - 1].s, e[2 * j - 1].s)
        Put(m) == << e[2 * m - 1], e[2 * m] >> \o SortPairs(e, done \cup {e[2 * m - 1].s})
        From(left) == IF left = {} THEN << >> ELSE Put(Least(left))
    IN  From({ i \in 1..(Len(e) \div 2) : e[2 * i - 1].s \notin done })

\* The jsonb document of a parsed JSON value: object keys in jsonb order.
RECURSIVE Jsonb(_)
Jsonb(v) ==
    CASE v.t = "list" -> JList([i \in 1..Len(v.e) |-> Jsonb(v.e[i])])
      [] v.t = "dict" ->
            LET w == JDict([i \in 1..Len(v.e) |->
                               IF i % 2 = 1 THEN v.e[i] ELSE Jsonb(v.e[i])])
            IN  JDict(SortPairs(w.e, {}))
      [] OTHER -> v

\* $n::jsonb of a text parameter: the document, or a PostgreSQL error.
jsonb_in(txt) ==
    LET Doc(r) == IF r.ok THEN Ok(Jsonb(r.v)) ELSE Raise("PostgresError")
    IN  Doc(json_loads(txt))

\* The text form of a jsonb document (grid_data::text, and what the driver
\* hands to Python for a jsonb column): ", " and ": " as separators.
jsonb_out(doc) == json_dumps(doc)

\* txt from position i on matches the LIKE pattern pat from position j on,
\* case folded: % is any run of characters, _ any one character.
RECURSIVE LikeFrom(_, _, _, _)
LikeFrom(txt, i, pat, j) ==
    IF j > Len(pat) THEN i = Len(txt) + 1
    ELSE IF pat[j] = "%"
         THEN \/ j = Len(pat)
              \/ \E k \in i..(Len(txt) + 1) : LikeFrom(txt, k, pat, j + 1)
    ELSE /\ i <= Len(txt)
         /\ pat[j] = "_" \/ Lower(pat[j]) = Lower(txt[i])
         /\ LikeFrom(txt, i + 1, pat, j + 1)

\* col ILIKE pattern in a WHERE clause, col a text value or NULL.  NULL
\* ILIKE p is unknown; under OR/AND without NOT a WHERE clause treats it as
\* false.
ILIKE(col, pattern) == col.t = "str" /\ LikeFrom(col.s, 1, pattern, 1)

(***************************************************************************)
(* Pydantic models                                                         *)
(***************************************************************************)

\* A GridItem object, as a record of its four fields.
GridItemOf(name, showRight, showBelow, gridname) ==
    [name |-> name, showRight |-> showRight, showBelow |-> showBelow,
     gridname |-> gridname]

\* GridItem(**item): item must be a mapping (TypeError otherwise); name is
\* required, the other fields default to False, False, "".
GridItem(item) ==
    IF item.t # "dict" THEN Raise("TypeError")
    ELSE LET fieldOk(k, ty, required) ==
                 IF HasKey(item, k) THEN DictGet(item, k).t = ty ELSE ~required
         IN  IF /\ fieldOk(K_name, "str", TRUE)
                /\ fieldOk(K_showRight, "bool", FALSE)
                /\ fieldOk(K_showBelow, "bool", FALSE)
                /\ fieldOk(K_gridname, "str", FALSE)
             THEN Ok(GridItemOf(
                     DictGet(item, K_name).s,
                     IF HasKey(item, K_showRight) THEN DictGet(item, K_showRight).b ELSE FALSE,
                     IF HasKey(item, K_showBelow) THEN DictGet(item, K_showBelow).b ELSE FALSE,
                     IF HasKey(item, K_gridname) THEN DictGet(item, K_gridname).s ELSE << >>))
             ELSE Raise("ValidationError")

\* [GridItem(**item) for item in items]: the list, or the first exception.
GridItems(items) ==
    LET All(rs) ==
            IF \A i \in 1..Len(items) : rs[i].ok
            THEN Ok([i \in 1..Len(items) |-> rs[i].v])
            ELSE Raise(rs[CHOOSE i \in 1..Len(items) :
                            ~rs[i].ok /\ \A j \in 1..(i - 1) : rs[j].ok].exc)
    IN  All([i \in 1..Len(items) |-> GridItem(items[i])])

\* Mutant of GridItemDict: the encoder loses showBelow.
GridItemDict_OmitsShowBelow(g) ==
    JDict(<< JStr(K_name), JStr(g.name),
             JStr(K_showRight), JBool(g.showRight),
             JStr(K_gridname), JStr(g.gridname) >>)

\* item.dict() / jsonable_encoder(item): the fields in declaration order.
GridItemDict(g) ==
    JDict(<< JStr(K_name), JStr(g.name),
             JStr(K_showRight), JBool(g.showRight),
             JStr(K_showBelow), JBool(g.showBelow),
             JStr(K_gridname), JStr(g.gridname) >>)

\* jsonable_encoder(process.grid_data), [item.dict() for item in ...]
jsonable_encoder(gs) == JList([i \in 1..Len(gs) |-> GridItemDict(gs[i])])

\* Field(..., min_length=1, max_length=255)
MinNameLen == 1
MaxNameLen == 255

\* A List[GridItem] field of a request body: every element is validated by
\* GridItem; anything else is a validation error.
GridItemList(v) ==
    LET Valid(r) == IF r.ok THEN r ELSE Raise("ValidationError")
    IN  IF v.t # "list" THEN Raise("ValidationError")
        ELSE Valid(GridItems(v.e))

NameOk(v) == v.t = "str" /\ Len(v.s) >= MinNameLen /\ Len(v.s) <= MaxNameLen

\* ProcessCreate of a JSON body [process_name, description, grid_data]:
\* process_name is required; description defaults to None; grid_data
\* defaults to the empty list.
ProcessCreate(body) ==
    LET Model(g) ==
            IF /\ NameOk(body.process_name)
               /\ body.description.t \in {"absent", "null", "str"}
               /\ g.ok
            THEN Ok([process_name |-> body.process_name.s,
                     description  |-> IF body.description.t = "absent" THEN None
                                      ELSE body.description,
                     grid_data    |-> g.v])
            ELSE Raise("RequestValidationError")
    IN  Model(IF body.grid_data.t = "absent" THEN Ok(<< >>)
              ELSE GridItemList(body.grid_data))

\* ProcessUpdate of a JSON body [process_name, description, grid_data,
\* is_active]: every field is Optional with default None, so an absent key
\* and an explicit null both give None.  has_grid tells whether grid_data is
\* a list (grid_data then holds the GridItem objects).
ProcessUpdate(body) ==
    LET opt(v) == IF v.t = "absent" THEN None ELSE v
        Model(g) ==
            IF /\ body.process_name.t \in {"absent", "null"} \/ NameOk(body.process_name)
               /\ body.description.t \in {"absent", "null", "str"}
               /\ g.ok
               /\ body.is_active.t \in {"absent", "null", "bool"}
            THEN Ok([process_name |-> opt(body.process_name),
                     description  |-> opt(body.description),
                     has_grid     |-> body.grid_data.t = "list",
                     grid_data    |-> g.v,
                     is_active    |-> opt(body.is_active)])
            ELSE Raise("RequestValidationError")
    IN  Model(IF body.grid_data.t \in {"absent", "null"} THEN Ok(<< >>)
              ELSE GridItemList(body.grid_data))

\* ProcessResponse(id=str(row['id']), ..., grid_data=grid)
ProcessResponse(row, grid) ==
    [id           |-> PyStrInt(row.id),
     process_name |-> row.process_name,
     description  |-> row.description,
     grid_data    |-> grid,
     created_at   |-> row.created_at,
     updated_at   |-> row.updated_at,
     is_active    |-> row.is_active]

\* ProcessListResponse(id=str(row['id']), ..., grid_count=row['grid_count'] or 0)
ProcessListResponse(row, grid_count) ==
    [id           |-> PyStrInt(row.id),
     process_name |-> row.process_name,
     description  |-> row.description,
     grid_count   |-> IF grid_count.t = "int" THEN grid_count.n ELSE 0,
     created_at   |-> row.created_at,
     is_active    |-> row.is_active]

(***************************************************************************)
(* The table processes_with_json and the statements the handlers run.      *)
(* A table is a function from the ids of its rows to the rows; a row is    *)
(* [id, process_name, description, grid_data, created_at, updated_at,      *)
(* is_active], description a text value or None (NULL), grid_data a jsonb  *)
(* document.                                                               *)
(***************************************************************************)

\* Column default of is_active for an INSERT that does not name it.
DefaultIsActive == TRUE

\* The record the driver returns for a row: the jsonb column arrives as its
\* text (no codec is registered on the pool).
Record(row) == [row EXCEPT !.grid_data = JStr(jsonb_out(row.grid_data))]

\* INSERT INTO processes_with_json (process_name, description, grid_data)
\* VALUES ($1, $2, $3::jsonb) RETURNING ...: the new table and the record,
\* or a PostgreSQL error.  id comes from the sequence, ts is now().
InsertReturning(t, id, ts, process_name, description, grid_data_json) ==
    LET Returning(row) == Ok([tbl |-> t @@ (id :> row), row |-> Record(row)])
        Insert(doc) ==
            IF doc.ok
            THEN Returning([id |-> id, process_name |-> process_name,
                            description |-> description, grid_data |-> doc.v,
                            created_at |-> ts, updated_at |-> ts,
                            is_active |-> DefaultIsActive])
            ELSE Raise("PostgresError")
    IN  Insert(jsonb_in(grid_data_json))

\* jsonb_array_length(grid_data): NULL of NULL, an error of a non-array.
jsonb_array_length(doc) ==
    CASE doc.t = "list" -> Ok(JInt(Len(doc.e)))
      [] doc.t = "null" -> Ok(None)
      [] OTHER -> Raise("PostgresError")

\* The ids of S by created_at, latest first (ORDER BY created_at DESC); rows
\* of equal created_at in id order.
RECURSIVE OrderByCreatedDesc(_, _)
OrderByCreatedDesc(t, S) ==
    IF S = {} THEN << >>
    ELSE LET m == CHOOSE i \in S : \A j \in S \ {i} :
                    \/ t[i].created_at > t[j].created_at
                    \/ (t[i].created_at = t[j].created_at /\ i < j)
         IN  << m >> \o OrderByCreatedDesc(t, S \ {m})

\* LIMIT n OFFSET k of a sequence.
LimitOffset(seq, n, k) ==
    SubSeq(seq, k + 1, IF k + n < Len(seq) THEN k + n ELSE Len(seq))

\* The summary rows [row, grid_count] of the ids in order, or the error of
\* the first jsonb_array_length that fails.
Summaries(t, order) ==
    LET Rows(cnt) ==
            IF \A i \in 1..Len(order) : cnt[i].ok
            THEN Ok([i \in 1..Len(order) |->
                        ProcessListResponse(t[order[i]], cnt[i].v)])
            ELSE Raise("PostgresError")
    IN  Rows([i \in 1..Len(order) |-> jsonb_array_length(t[order[i]].grid_data)])

\* Mutant of ListWhere: the listing has no WHERE clause.
ListWhere_IgnoresActiveOnly(row, active_only) == TRUE

\* WHERE clause of get_processes.
ListWhere(row, active_only) == IF active_only THEN row.is_active = TRUE ELSE TRUE

\* WHERE clause of search_processes; AND binds tighter than OR.
SearchWhere(row, pattern) ==
    \/ (ILIKE(JStr(row.process_name), pattern) \/ ILIKE(row.description, pattern))
    \/ (ILIKE(JStr(jsonb_out(row.grid_data)), pattern) /\ row.is_active = TRUE)

(***************************************************************************)
(* The handlers, as functions of the table and the request.  Each yields   *)
(* [status, raised, body, tbl]: the HTTP status, the exception raised in   *)
(* the handler ("none" if it returned), the response body and the table    *)
(* after the handler's statement.                                          *)
(***************************************************************************)
Response(status, raised, body, t) ==
    [status |-> status, raised |-> raised, body |-> body, tbl |-> t]

\* "except ValueError": pydantic's ValidationError and json's
\* JSONDecodeError are ValueErrors; HTTPException is not.
IsValueError(exc) == exc \in {"ValueError", "ValidationError", "JSONDecodeError"}

\* try: ... except Exception as e: raise HTTPException(status_code=500, ...)
\* HTTPException is an Exception, so one raised inside the try is caught too.
ExceptException(exc) == 500

\* try: ... except ValueError: raise HTTPException(status_code=400, ...)
\*          except Exception as e: raise HTTPException(status_code=500, ...)
ExceptValueErrorException(exc) == IF IsValueError(exc) THEN 400 ELSE 500

\* not v, for the values a query parameter takes.
Falsy(v) ==
    \/ v.t = "null"
    \/ (v.t = "int" /\ v.n = 0)
    \/ (v.t = "str" /\ v.s = << >>)

\* str(v) of a value that is no dict and no list.
PyStr(v) ==
    CASE v.t = "str"  -> v.s
      [] v.t = "bool" -> IF v.b THEN << "T", "r", "u", "e" >>
                         ELSE << "F", "a", "l", "s", "e" >>
      [] v.t = "null" -> << "N", "o", "n", "e" >>
      [] v.t = "int"  -> PyStrInt(v.n)

\* for item in v: the elements of a list, the characters of a str, the keys
\* of a dict; anything else is not iterable.
PyIter(v) ==
    CASE v.t = "list" -> Ok(v.e)
      [] v.t = "str"  -> Ok([i \in 1..Len(v.s) |-> JStr(<< v.s[i] >>)])
      [] v.t = "dict" -> Ok([i \in 1..(Len(v.e) \div 2) |-> v.e[2 * i - 1]])
      [] OTHER -> Raise("TypeError")

\* grid = row['grid_data']; if isinstance(grid, str): grid = json.loads(grid);
\* [GridItem(**item) for item in grid]
LoadGridItems(grid_data) ==
    LET Items(items) == IF items.ok THEN GridItems(items.v) ELSE items
        Loaded(grid) == Items(IF grid.ok THEN PyIter(grid.v) ELSE grid)
    IN  Loaded(IF grid_data.t = "str" THEN json_loads(grid_data.s) ELSE Ok(grid_data))

\* [GridItem(**item) if isinstance(item, dict)
\*  else GridItem(name="unknown", gridname=str(item)) for item in row['grid_data']]
CoerceGridItems(grid_data) ==
    LET one(item) == IF item.t = "dict" THEN GridItem(item)
                     ELSE Ok(GridItemOf(S_unknown, FALSE, FALSE, PyStr(item)))
        All(rs) ==
            IF \A i \in 1..Len(rs) : rs[i].ok
            THEN Ok([i \in 1..Len(rs) |-> rs[i].v])
            ELSE Raise(rs[CHOOSE i \in 1..Len(rs) :
                            ~rs[i].ok /\ \A j \in 1..(i - 1) : rs[j].ok].exc)
        Each(items) ==
            IF ~items.ok THEN items
            ELSE All([i \in 1..Len(items.v) |-> one(items.v[i])])
    IN  Each(PyIter(grid_data))

\* POST /processes/
CreateProcess(t, id, ts, body) ==
    LET Return(row, grid, t2) ==
            IF ~grid.ok THEN Response(ExceptException(grid.exc), grid.exc, None, t2)
            ELSE Response(200, "none", ProcessResponse(row, grid.v), t2)
        Inserted(ins) ==
            IF ~ins.ok THEN Response(ExceptException(ins.exc), ins.exc, None, t)
            ELSE Return(ins.v.row, LoadGridItems(ins.v.row.grid_data), ins.v.tbl)
        Insert(process, grid_data_json) ==
            Inserted(InsertReturning(t, id, ts, process.process_name,
                                     process.description, grid_data_json))
        Encoded(process, grid_data_encoded) ==
            Insert(process, json_dumps(grid_data_encoded))
        Handler(process) ==
            IF ~process.ok THEN Response(422, process.exc, None, t)
            ELSE Encoded(process.v, jsonable_encoder(process.v.grid_data))
    IN  Handler(ProcessCreate(body))

\* GET /processes/
GetProcesses(t, skip, limit, active_only) ==
    LET sel   == { i \in DOMAIN t : ListWhere(t[i], active_only) }
        order == LimitOffset(OrderByCreatedDesc(t, sel), limit, skip)
        Return(rows) ==
            IF rows.ok THEN Response(200, "none", rows.v, t)
            ELSE Response(ExceptException(rows.exc), rows.exc, None, t)
    IN  Return(IF limit < 0 \/ skip < 0 THEN Raise("PostgresError")
               ELSE Summaries(t, order))

\* The rows that the SELECT of get_process_by_id_or_name matches.
FetchMatches(t, process_id, process_name) ==
    IF ~Falsy(process_id) THEN { i \in DOMAIN t : i = process_id.n }
    ELSE { i \in DOMAIN t : JStr(t[i].process_name) = process_name }

\* GET /processes/fetch; pick is the id of the row fetchrow returns, one of
\* FetchMatches, or 0 when there is none.
GetProcessByIdOrName(t, process_id, process_name, pick) ==
    LET Return(row, grid) ==
            IF ~grid.ok THEN Response(ExceptException(grid.exc), grid.exc, None, t)
            ELSE Response(200, "none", ProcessResponse(row, grid.v), t)
        Found(row) == Return(row, LoadGridItems(row.grid_data))
    IN  IF Falsy(process_id) /\ Falsy(process_name)
        THEN Response(400, "HTTPException:400", None, t)
        ELSE IF pick = 0
        THEN Response(ExceptException("HTTPException:404"), "HTTPException:404", None, t)
        ELSE Found(Record(t[pick]))

\* Mutant of UpdateFields: the is_active branch is missing.
UpdateFields_OmitsIsActive(process_update) ==
    { f \in {"process_name", "description"} : process_update[f].t # "null" }
    \cup (IF process_update.has_grid THEN {"grid_data"} ELSE {})

\* The fields of a ProcessUpdate that "is not None" selects for the SET clause.
UpdateFields(process_update) ==
    { f \in {"process_name", "description", "is_active"} : process_update[f].t # "null" }
    \cup (IF process_update.has_grid THEN {"grid_data"} ELSE {})

\* Mutant of UpdateSet: description is written whether supplied or not.
UpdateSet_WritesDescription(row, fields, process_update) ==
    [row EXCEPT
        !.process_name = IF "process_name" \in fields
                         THEN process_update.process_name.s ELSE @,
        !.description  = process_update.description,
        !.grid_data    = IF "grid_data" \in fields
                         THEN jsonb_in(json_dumps(
                                  jsonable_encoder(process_update.grid_data))).v
                         ELSE @,
        !.is_active    = IF "is_active" \in fields
                         THEN process_update.is_active.b ELSE @]

\* UPDATE processes_with_json SET <fields> WHERE id = $n RETURNING ...:
\* the row after the update.
UpdateSet(row, fields, process_update) ==
    [row EXCEPT
        !.process_name = IF "process_name" \in fields
                         THEN process_update.process_name.s ELSE @,
        !.description  = IF "description" \in fields
                         THEN process_update.description ELSE @,
        !.grid_data    = IF "grid_data" \in fields
                         THEN jsonb_in(json_dumps(
                                  jsonable_encoder(process_update.grid_data))).v
                         ELSE @,
        !.is_active    = IF "is_active" \in fields
                         THEN process_update.is_active.b ELSE @]

\* PUT /processes/{process_id}
UpdateProcess(t, process_id, body) ==
    LET Return(row, grid, t2) ==
            IF ~grid.ok
            THEN Response(ExceptValueErrorException(grid.exc), grid.exc, None, t2)
            ELSE Response(200, "none", ProcessResponse(row, grid.v), t2)
        Returning(new, row) ==
            Return(row, CoerceGridItems(row.grid_data), [t EXCEPT ![process_id] = new])
        Updated(new) == Returning(new, Record(new))
        Run(process_update, update_fields) ==
            IF update_fields = {}
            THEN Response(ExceptValueErrorException("HTTPException:400"),
                          "HTTPException:400", None, t)
            ELSE IF process_id \notin DOMAIN t
            THEN Response(ExceptValueErrorException("HTTPException:404"),
                          "HTTPException:404", None, t)
            ELSE Updated(UpdateSet(t[process_id], update_fields, process_update))
        Handler(process_update) ==
            IF ~process_update.ok THEN Response(422, process_update.exc, None, t)
            ELSE Run(process_update.v, UpdateFields(process_update.v))
    IN  Handler(ProcessUpdate(body))

\* Mutant of DeleteProcess: the soft delete removes the row as well.
DeleteProcess_AlwaysRemoves(t, process_id, soft_delete) ==
    LET t2 == [i \in DOMAIN t \ {process_id} |-> t[i]]
    IN  IF process_id \notin DOMAIN t
        THEN Response(ExceptValueErrorException("HTTPException:404"),
                      "HTTPException:404", None, t)
        ELSE Response(200, "none",
                      [message |-> IF soft_delete THEN "deactivated" ELSE "deleted",
                       id |-> PyStrInt(process_id)], t2)

\* DELETE /processes/{process_id}
DeleteProcess(t, process_id, soft_delete) ==
    LET t2 == IF soft_delete
              THEN [t EXCEPT ![process_id].is_active = FALSE]
              ELSE [i \in DOMAIN t \ {process_id} |-> t[i]]
    IN  IF process_id \notin DOMAIN t
        THEN Response(ExceptValueErrorException("HTTPException:404"),
                      "HTTPException:404", None, t)
        ELSE Response(200, "none",
                      [message |-> IF soft_delete THEN "deactivated" ELSE "deleted",
                       id |-> PyStrInt(process_id)], t2)

\* GET /processes/search/{search_term}
SearchProcesses(t, search_term) ==
    LET search_pattern == << "%" >> \o search_term \o << "%" >>
        sel   == { i \in DOMAIN t : SearchWhere(t[i], search_pattern) }
        Return(rows) ==
            IF rows.ok THEN Response(200, "none", rows.v, t)
            ELSE Response(ExceptException(rows.exc), rows.exc, None, t)
    IN  Return(Summaries(t, OrderByCreatedDesc(t, sel)))

(***************************************************************************)
(* State                                                                   *)
(***************************************************************************)
VARIABLES
    tbl,          \* the table processes_with_json
    nextId,       \* next value of the id sequence
    now,          \* the store's clock, in inserts
    free,         \* the connections idle in the pool, a stack: asyncpg
                  \* keeps them in a LIFO queue, last released on top
    pc,           \* per request slot: "idle", "acquiring", "handling", "exiting"
    conn,         \* per request slot: the connection it holds, 0 for none
    call,         \* per request slot: the handler call made on its connection
    writes,       \* number of create, update and delete calls handled so far
    submitted,    \* history: id -> grid_data of the create request, while no
                  \* update or delete has been called on the id since
    softDeleted   \* history: the ids soft-deleted and not hard-deleted since,
                  \* id -> whether an update has supplied is_active = true
                  \* since the soft delete

vars == << tbl, nextId, now, free, pc, conn, call, writes, submitted, softDeleted >>

\* Bounds of the model.
MaxWrites  == 2
NumClients == 2
PoolSize   == 1

\* limit: int = 100
DefaultLimit == 100

Clients     == 1..NumClients
Connections == 1..PoolSize

NoCall == [op |-> "none"]

\* Request data.
N_A == << "A" >>
N_z == << "z" >>
N_d == << "d" >>
Item_a == JDict(<< JStr(K_name), JStr(<< "a" >>) >>)
Item_z == JDict(<< JStr(K_name), JStr(<< "z" >>),
                   JStr(K_showBelow), JBool(TRUE),
                   JStr(K_gridname), JStr(<< "g" >>) >>)
Item_r == JDict(<< JStr(K_showRight), JBool(TRUE), JStr(K_name), JStr(<< "a" >>) >>)
Grid0 == JList(<< >>)
Grid1 == JList(<< Item_r >>)
Grid2 == JList(<< Item_a, Item_z >>)

\* Bodies of POST /processes/: valid ones, and one with an empty name.
CreateBodies ==
    [process_name : {JStr(N_A), JStr(N_z)},
     description  : {Absent, JStr(N_z)},
     grid_data    : {Absent, Grid0, Grid2}]
    \cup {[process_name |-> JStr(<< >>), description |-> Absent, grid_data |-> Absent]}

\* Bodies of PUT /processes/{id}: every choice of keys supplied or missing...
SuppliedOrMissing ==
    [process_name : {Absent, JStr(N_z)},
     description  : {Absent, JStr(N_d)},
     grid_data    : {Absent, Grid1},
     is_active    : {Absent, JBool(TRUE), JBool(FALSE)}]

\* ... and the same bodies with the missing keys sent as null.
NullFor(v) == IF v.t = "absent" THEN None ELSE v
ExplicitNulls == { [f \in DOMAIN b |-> NullFor(b[f])] : b \in SuppliedOrMissing }

UpdateBodies == SuppliedOrMissing \cup ExplicitNulls

SearchTerms == { << "a" >>, << "Z" >>, << "x" >> }

\* A row written to the table by another writer: its grid_data holds a
\* well-formed item and an element that is no object.
LegacyRow ==
    [id |-> 1, process_name |-> N_A, description |-> None,
     grid_data |-> JList(<< Jsonb(GridItemDict(GridItemOf(<< "a" >>, FALSE, TRUE, << >>))),
                            JStr(<< "x" >>) >>),
     created_at |-> 0, updated_at |-> 0, is_active |-> TRUE]

EmptyTable == << >>

Init ==
    /\ tbl \in {EmptyTable, 1 :> LegacyRow}
    /\ nextId = IF tbl = EmptyTable THEN 1 ELSE 2
    /\ now = 1
    /\ free = [k \in 1..PoolSize |-> k]
    /\ pc = [c \in Clients |-> "idle"]
    /\ conn = [c \in Clients |-> 0]
    /\ call = [c \in Clients |-> NoCall]
    /\ writes = 0
    /\ submitted = << >>
    /\ softDeleted = << >>

(***************************************************************************)
(* Requests                                                                *)
(***************************************************************************)

\* GET /: no dependency on the store, no state.
root(c) ==
    /\ pc[c] = "idle"
    /\ UNCHANGED vars

\* A request for one of the /processes routes arrives: FastAPI enters its
\* dependency get_db_connection, which awaits a connection.
Arrive(c) ==
    /\ pc[c] = "idle"
    /\ pc' = [pc EXCEPT ![c] = "acquiring"]
    /\ UNCHANGED << tbl, nextId, now, free, conn, call, writes, submitted, softDeleted >>

\* connection = await database.get_connection(); yield connection
AcquireConnection(c) ==
    /\ pc[c] = "acquiring"
    /\ free # << >>
    /\ conn' = [conn EXCEPT ![c] = Head(free)]
    /\ free' = Tail(free)
    /\ pc' = [pc EXCEPT ![c] = "handling"]
    /\ UNCHANGED << tbl, nextId, now, call, writes, submitted, softDeleted >>

\* Mutant of ReleaseConnection: the release follows the yield without a
\* finally, so a handler that raised leaves its connection checked out.
ReleaseConnection_SkippedOnError(c) ==
    /\ pc[c] = "exiting"
    /\ free' = IF call[c].status = 200 THEN << conn[c] >> \o free ELSE free
    /\ conn' = [conn EXCEPT ![c] = 0]
    /\ pc' = [pc EXCEPT ![c] = "idle"]
    /\ call' = [call EXCEPT ![c] = NoCall]
    /\ UNCHANGED << tbl, nextId, now, writes, submitted, softDeleted >>

\* finally: await database.release_connection(connection); the response
\* has been produced.
ReleaseConnection(c) ==
    /\ pc[c] = "exiting"
    /\ free' = << conn[c] >> \o free
    /\ conn' = [conn EXCEPT ![c] = 0]
    /\ pc' = [pc EXCEPT ![c] = "idle"]
    /\ call' = [call EXCEPT ![c] = NoCall]
    /\ UNCHANGED << tbl, nextId, now, writes, submitted, softDeleted >>

\* The handler of slot c runs op on args with result r.
Handled(c, op, args, r) ==
    /\ pc[c] = "handling"
    /\ pc' = [pc EXCEPT ![c] = "exiting"]
    /\ tbl' = r.tbl
    /\ call' = [call EXCEPT ![c] =
                  [op |-> op, args |-> args, status |-> r.status,
                   raised |-> r.raised, body |-> r.body,
                   pre |-> tbl, post |-> r.tbl]]
    /\ UNCHANGED << free, conn >>

Without(f, id) == [i \in DOMAIN f \ {id} |-> f[i]]

create_process(c, body) ==
    LET Created(r, inserted) ==
            /\ Handled(c, "create", [body |-> body], r)
            /\ nextId' = IF inserted THEN nextId + 1 ELSE nextId
            /\ now' = IF inserted THEN now + 1 ELSE now
            /\ writes' = writes + 1
            /\ submitted' = IF inserted THEN submitted @@ (nextId :> body.grid_data)
                            ELSE submitted
            /\ UNCHANGED softDeleted
        Result(r) == Created(r, nextId \in DOMAIN r.tbl)
    IN  Result(CreateProcess(tbl, nextId, now, body))

get_processes(c, skip, limit, active_only) ==
    /\ Handled(c, "list",
               [skip |-> skip, limit |-> limit, active_only |-> active_only],
               GetProcesses(tbl, skip, limit, active_only))
    /\ UNCHANGED << nextId, now, writes, submitted, softDeleted >>

get_process_by_id_or_name(c, process_id, process_name) ==
    LET matches == FetchMatches(tbl, process_id, process_name)
    IN  /\ \E pick \in (IF matches = {} THEN {0} ELSE matches) :
              Handled(c, "fetch",
                      [process_id |-> process_id, process_name |-> process_name,
                       pick |-> pick],
                      GetProcessByIdOrName(tbl, process_id, process_name, pick))
        /\ UNCHANGED << nextId, now, writes, submitted, softDeleted >>

update_process(c, process_id, body) ==
    LET Updated(r) ==
            /\ Handled(c, "update", [process_id |-> process_id, body |-> body], r)
            /\ writes' = writes + 1
            /\ submitted' = Without(submitted, process_id)
            /\ softDeleted' =
                  IF /\ process_id \in DOMAIN softDeleted
                     /\ r.status = 200
                     /\ body.is_active = JBool(TRUE)
                  THEN [softDeleted EXCEPT ![process_id] = TRUE]
                  ELSE softDeleted
            /\ UNCHANGED << nextId, now >>
    IN  Updated(UpdateProcess(tbl, process_id, body))

delete_process(c, process_id, soft_delete) ==
    LET r == DeleteProcess(tbl, process_id, soft_delete)
    IN  /\ Handled(c, "delete",
                   [process_id |-> process_id, soft_delete |-> soft_delete], r)
        /\ writes' = writes + 1
        /\ submitted' = Without(submitted, process_id)
        /\ softDeleted' =
              IF process_id \notin DOMAIN tbl THEN softDeleted
              ELSE IF soft_delete
              THEN Without(softDeleted, process_id) @@ (process_id :> FALSE)
              ELSE Without(softDeleted, process_id)
        /\ UNCHANGED << nextId, now >>

search_processes(c, search_term) ==
    /\ Handled(c, "search", [search_term |-> search_term],
               SearchProcesses(tbl, search_term))
    /\ UNCHANGED << nextId, now, writes, submitted, softDeleted >>

\* The ids a request may name: those given out so far, and the next one.
Ids == 1..nextId

\* The query parameters of GET /processes/fetch: an id, a name, both, none.
FetchParams ==
    ({None} \cup { JInt(i) : i \in {0} \cup Ids }) \X {None}
    \cup ({None, JInt(0)} \X {JStr(N_A), JStr(N_z)})
    \cup {<< JInt(1), JStr(N_z) >>}

\* Slot c has its connection and more writes are within the bound.
Handling(c) == pc[c] = "handling"
MayWrite(c) == pc[c] = "handling" /\ writes < MaxWrites

\* The service with one request at a time.
Next ==
    \/ root(1)
    \/ Arrive(1)
    \/ AcquireConnection(1)
    \/ ReleaseConnection(1)
    \/ MayWrite(1) /\ \E body \in CreateBodies : create_process(1, body)
    \/ Handling(1) /\ \E skip \in {0, 1}, limit \in {1, DefaultLimit}, active_only \in BOOLEAN :
          get_processes(1, skip, limit, active_only)
    \/ Handling(1) /\ \E q \in FetchParams : get_process_by_id_or_name(1, q[1], q[2])
    \/ MayWrite(1) /\ \E process_id \in Ids, body \in UpdateBodies :
          update_process(1, process_id, body)
    \/ MayWrite(1) /\ \E process_id \in Ids, soft_delete \in BOOLEAN :
          delete_process(1, process_id, soft_delete)
    \/ Handling(1) /\ \E search_term \in SearchTerms : search_processes(1, search_term)

Spec == Init /\ [][Next]_vars

\* Concurrent requests over the pool, with a small choice of requests that
\* takes every exit path of the handlers.
NextPool ==
    \E c \in Clients :
        \/ root(c)
        \/ Arrive(c)
        \/ AcquireConnection(c)
        \/ ReleaseConnection(c)
        \/ MayWrite(c) /\ create_process(c, [process_name |-> JStr(N_A),
                                             description |-> Absent,
                                             grid_data |-> Grid1])
        \/ Handling(c) /\ get_processes(c, 0, DefaultLimit, TRUE)
        \/ Handling(c) /\ \E q \in {<< JInt(1), None >>, << None, None >>} :
              get_process_by_id_or_name(c, q[1], q[2])
        \/ MayWrite(c) /\ \E process_id \in {1}, is_active \in {Absent, JBool(TRUE)} :
              update_process(c, process_id,
                             [process_name |-> Absent, description |-> Absent,
                              grid_data |-> Absent, is_active |-> is_active])
        \/ MayWrite(c) /\ \E soft_delete \in BOOLEAN : delete_process(c, 1, soft_delete)
        \/ Handling(c) /\ search_processes(c, << "a" >>)

SpecPool == Init /\ [][NextPool]_vars

(***************************************************************************)
(* Properties                                                              *)
(***************************************************************************)

\* The calls whose handler has run and whose response is being sent.
Calls(op) == { call[c] : c \in { x \in Clients : call[x].op = op } }

\* The keys of an update body that carry a value (neither missing nor null).
Supplied(body) == { f \in DOMAIN body : body[f].t \notin {"absent", "null"} }

\* The GridItem a submitted JSON object stands for: its fields, the omitted
\* ones at their defaults.
ItemAsSubmitted(d) ==
    [name      |-> DictGet(d, K_name).s,
     showRight |-> IF HasKey(d, K_showRight) THEN DictGet(d, K_showRight).b ELSE FALSE,
     showBelow |-> IF HasKey(d, K_showBelow) THEN DictGet(d, K_showBelow).b ELSE FALSE,
     gridname  |-> IF HasKey(d, K_gridname) THEN DictGet(d, K_gridname).s ELSE << >>]

\* The jsonb document that stores a submitted list of items.
DocAsSubmitted(list) ==
    JList([i \in 1..Len(list.e) |->
        LET g == ItemAsSubmitted(list.e[i])
        IN  JDict(<< JStr(K_name), JStr(g.name),
                     JStr(K_gridname), JStr(g.gridname),
                     JStr(K_showBelow), JBool(g.showBelow),
                     JStr(K_showRight), JBool(g.showRight) >>)])

\* An element of a stored grid_data array is a valid GridItem object.
WellFormedItem(v) ==
    /\ v.t = "dict"
    /\ HasKey(v, K_name) /\ DictGet(v, K_name).t = "str"
    /\ HasKey(v, K_showRight) => DictGet(v, K_showRight).t = "bool"
    /\ HasKey(v, K_showBelow) => DictGet(v, K_showBelow).t = "bool"
    /\ HasKey(v, K_gridname) => DictGet(v, K_gridname).t = "str"
WellFormedGrid(doc) ==
    doc.t = "list" /\ \A i \in 1..Len(doc.e) : WellFormedItem(doc.e[i])

\* The full record of a row, with the given grid items.
IsRecordOf(body, row, grid) ==
    /\ body.id = PyStrInt(row.id)
    /\ body.process_name = row.process_name
    /\ body.description = row.description
    /\ body.is_active = row.is_active
    /\ body.created_at = row.created_at
    /\ body.updated_at = row.updated_at
    /\ body.grid_data = grid

\* The ids (as the response gives them) of the summaries of a listing.
ListedIds(body) == { body[i].id : i \in 1..Len(body) }

\* C1 (as claimed): search_processes never returns a process whose is_active
\* is false.
C1_SearchReturnsOnlyActive ==
    \A k \in Calls("search") :
        k.status = 200 => \A i \in 1..Len(k.body) : k.body[i].is_active = TRUE

\* A call that targets a process by id: a fetch by a positive id, an update
\* with at least one field, a delete.
TargetsId(k) ==
    \/ k.op = "fetch" /\ k.args.process_id.t = "int" /\ k.args.process_id.n > 0
    \/ k.op = "update" /\ Supplied(k.args.body) # {}
    \/ k.op = "delete"
TargetId(k) == IF k.op = "fetch" THEN k.args.process_id.n ELSE k.args.process_id

\* C2 (as claimed): an operation that targets an id with no row in the store
\* ends in a not-found error and leaves the store unchanged.
C2_MissingIdIsNotFound ==
    \A c \in Clients :
        (call[c].op # "none" /\ TargetsId(call[c])
            /\ TargetId(call[c]) \notin DOMAIN call[c].pre)
        => (call[c].status = 404 /\ call[c].post = call[c].pre)

\* C3 (as claimed): update_process with a body in which no field is set
\* returns a bad-request error and leaves every row unchanged.
C3_EmptyUpdateIsBadRequest ==
    \A k \in Calls("update") :
        Supplied(k.args.body) = {} => (k.status = 400 /\ k.post = k.pre)

\* C4: update_process of an existing process with a non-empty set S of
\* supplied fields sets exactly the fields of S to the supplied values and
\* leaves id, the other fields and every other row unchanged.
C4_UpdateSetsExactlySupplied ==
    \A k \in Calls("update") :
        LET id  == k.args.process_id
            b   == k.args.body
            S   == Supplied(b)
            old == k.pre[id]
            new == k.post[id]
        IN  (id \in DOMAIN k.pre /\ S # {}) =>
            /\ DOMAIN k.post = DOMAIN k.pre
            /\ \A j \in DOMAIN k.pre \ {id} : k.post[j] = k.pre[j]
            /\ new.id = old.id
            /\ new.process_name =
                 IF "process_name" \in S THEN b.process_name.s ELSE old.process_name
            /\ new.description =
                 IF "description" \in S THEN b.description ELSE old.description
            /\ new.grid_data =
                 IF "grid_data" \in S THEN DocAsSubmitted(b.grid_data) ELSE old.grid_data
            /\ new.is_active =
                 IF "is_active" \in S THEN b.is_active.b ELSE old.is_active

\* C4 witness: an update that supplies only description, on a row with grid
\* items, in a table of two rows.
C4_Witness ==
    \E k \in Calls("update") :
        /\ k.args.process_id \in DOMAIN k.pre
        /\ Supplied(k.args.body) = {"description"}
        /\ k.pre[k.args.process_id].grid_data.e # << >>
        /\ Cardinality(DOMAIN k.pre) = 2
        /\ k.post # k.pre

\* The fetches that ask for row id, by its id or by its name.
FetchesById(id)   == { k \in Calls("fetch") : k.args.process_id = JInt(id) }
FetchesByName(id) ==
    { k \in Calls("fetch") :
        /\ Falsy(k.args.process_id)
        /\ id \in DOMAIN tbl
        /\ k.args.process_name = JStr(tbl[id].process_name) }

\* The default listings.
DefaultListings == { k \in Calls("list") : k.args.active_only }

\* C5 (as claimed): after a soft delete and until a hard delete of the id,
\* the row is kept with is_active = false, a fetch by the id or by its name
\* returns the full record with is_active = false, and the default listing
\* does not contain it.
C5_SoftDeletedStaysFetchable ==
    \A id \in DOMAIN softDeleted :
        /\ id \in DOMAIN tbl /\ tbl[id].is_active = FALSE
        /\ \A k \in FetchesById(id) \cup FetchesByName(id) :
              /\ k.status = 200
              /\ k.body.id = PyStrInt(id)
              /\ k.body.is_active = FALSE
        /\ \A k \in DefaultListings :
              k.status = 200 /\ PyStrInt(id) \notin ListedIds(k.body)

\* C5 (amended): after a soft delete, and until a hard delete of the id or
\* an update of it that supplies is_active = true, the row is kept with
\* is_active = false and the default listing does not contain it; a fetch by
\* the id returns the full record with is_active = false when the stored
\* grid items are all valid GridItem objects and is a server error
\* otherwise; a fetch by its name answers for one of the rows that bear the
\* name, which is this row when no other row has the name.
C5_SoftDeletedUntilReactivated ==
    \A id \in DOMAIN softDeleted :
        /\ id \in DOMAIN tbl
        /\ softDeleted[id] = FALSE =>
            /\ tbl[id].is_active = FALSE
            /\ \A k \in FetchesById(id) :
                  IF WellFormedGrid(tbl[id].grid_data)
                  THEN /\ k.status = 200
                       /\ IsRecordOf(k.body, tbl[id], k.body.grid_data)
                       /\ k.body.is_active = FALSE
                  ELSE k.status = 500
            /\ \A k \in FetchesByName(id) :
                  /\ k.args.pick \in DOMAIN tbl
                  /\ tbl[k.args.pick].process_name = tbl[id].process_name
                  /\ (\A j \in DOMAIN tbl \ {id} :
                          tbl[j].process_name # tbl[id].process_name)
                       => k.args.pick = id
                  /\ IF WellFormedGrid(tbl[k.args.pick].grid_data)
                     THEN /\ k.status = 200
                          /\ IsRecordOf(k.body, tbl[k.args.pick], k.body.grid_data)
                     ELSE k.status = 500
            /\ \A k \in DefaultListings :
                  k.status = 200 /\ PyStrInt(id) \notin ListedIds(k.body)

\* C5 witness: a fetch by id that returns a soft-deleted row.
C5_Witness ==
    \E id \in DOMAIN softDeleted :
        /\ softDeleted[id] = FALSE
        /\ \E k \in FetchesById(id) : k.status = 200 /\ k.body.is_active = FALSE

\* The row a fetch has found holds a malformed item in its grid_data array.
FoundMalformed(k) ==
    /\ k.args.pick # 0
    /\ ~(Falsy(k.args.process_id) /\ Falsy(k.args.process_name))
    /\ k.pre[k.args.pick].grid_data.t = "list"
    /\ ~WellFormedGrid(k.pre[k.args.pick].grid_data)

\* C6 (as claimed): a fetch of a process whose stored grid_data array holds
\* a malformed item succeeds, with each malformed item replaced by the
\* placeholder name = "unknown", gridname = <raw value> and the well-formed
\* items as stored.
C6_FetchReplacesMalformedItems ==
    \A k \in Calls("fetch") :
        FoundMalformed(k) =>
            LET doc == k.pre[k.args.pick].grid_data
            IN  /\ k.status = 200
                /\ k.body.grid_data =
                     [i \in 1..Len(doc.e) |->
                        IF WellFormedItem(doc.e[i]) THEN ItemAsSubmitted(doc.e[i])
                        ELSE GridItemOf(S_unknown, FALSE, FALSE, PyStr(doc.e[i]))]

\* The grid_data a create request submits: its list, the empty list when it
\* gives none.
SubmittedItems(g) == IF g.t = "list" THEN g.e ELSE << >>

\* C7: create_process followed by a fetch by the returned id, with no update
\* or delete of the id in between, yields the submitted list: same length,
\* same order, every field equal, omitted fields at their defaults.
C7_CreateFetchRoundTrip ==
    \A id \in DOMAIN submitted :
        \A k \in FetchesById(id) :
            LET items == SubmittedItems(submitted[id])
            IN  /\ k.status = 200
                /\ k.body.id = PyStrInt(id)
                /\ Len(k.body.grid_data) = Len(items)
                /\ \A i \in 1..Len(items) :
                      k.body.grid_data[i] = ItemAsSubmitted(items[i])

\* C7 witness: a fetch by id of a process created with two items, one of them
\* with omitted fields.
C7_Witness ==
    \E id \in DOMAIN submitted :
        /\ submitted[id] = Grid2
        /\ \E k \in FetchesById(id) : k.status = 200

\* C8: get_processes with active_only = true returns only summaries of rows
\* whose is_active is true, for any skip and limit; with skip = 0 and a
\* limit that covers them it returns every row whose is_active is true.
C8_ListingOnlyActive ==
    \A k \in DefaultListings :
        LET active == { i \in DOMAIN k.pre : k.pre[i].is_active = TRUE }
        IN  /\ k.status = 200
            /\ \A i \in 1..Len(k.body) :
                  /\ k.body[i].is_active = TRUE
                  /\ \E j \in active : k.body[i].id = PyStrInt(j)
            /\ (k.args.skip = 0 /\ k.args.limit >= Cardinality(active))
                 => ListedIds(k.body) = { PyStrInt(j) : j \in active }

\* C8 witness: a default listing that shows a row that was soft-deleted and
\* then set back to is_active = true by an update.
C8_Witness ==
    \E k \in DefaultListings :
        /\ \E id \in DOMAIN softDeleted :
              softDeleted[id] = TRUE /\ PyStrInt(id) \in ListedIds(k.body)

\* The slots whose request holds a connection, and those with a request in
\* flight (received, response not yet complete).
Holding  == { c \in Clients : pc[c] \in {"handling", "exiting"} }
InFlight == { c \in Clients : pc[c] # "idle" }
FreeSet  == { free[i] : i \in 1..Len(free) }
HeldSet  == { conn[c] : c \in Holding }

NullsRemoved(body) ==
    [f \in DOMAIN body |-> IF body[f].t = "null" THEN Absent ELSE body[f]]

\* C10: update_process treats an explicit null like an absent field: the
\* call ends as the same call without the nulls does, a body of nulls only
\* is rejected as having no fields to update and changes nothing, and no
\* update turns a non-null description (or grid_data) into null.
C10_NullIsAbsent ==
    \A k \in Calls("update") :
        LET id == k.args.process_id
            r  == UpdateProcess(k.pre, id, NullsRemoved(k.args.body))
        IN  /\ r.tbl = k.post /\ r.status = k.status
            /\ r.raised = k.raised /\ r.body = k.body
            /\ Supplied(k.args.body) = {} =>
                  /\ k.raised = "HTTPException:400"
                  /\ k.status # 200
                  /\ k.post = k.pre
            /\ \A i \in DOMAIN k.pre :
                  /\ i \in DOMAIN k.post
                  /\ k.pre[i].description.t # "null"
                        => k.post[i].description.t # "null"
                  /\ k.pre[i].grid_data.t # "null"
                        => k.post[i].grid_data.t # "null"

\* C10 witness: an update with description: null and another field supplied,
\* on a row whose description is not null, goes through.
C10_Witness ==
    \E k \in Calls("update") :
        /\ k.args.body.description.t = "null"
        /\ k.args.process_id \in DOMAIN k.pre
        /\ k.pre[k.args.process_id].description.t = "str"
        /\ k.status = 200
        /\ k.post # k.pre

====
